---- MODULE Spec2Model ----
(***************************************************************************)
(* Query translation layer of shodan_ai_stable.py: the heuristic           *)
(* translator, the OpenAI-backed translator with its fallback chain, and   *)
(* the dispatcher.  Python strings are modelled as sequences of            *)
(* one-character strings, so that lower(), split(), strip(), join() and    *)
(* the substring test are computed rather than assumed.                    *)
(***************************************************************************)
EXTENDS Naturals, Sequences, FiniteSets

\* ------------------------------------------------------------------ bounds
\* A question is the concatenation of at most MaxPieces pieces of Pieces.
MaxPieces == 3

\* ------------------------------------------------------- string primitives
\* Whitespace characters of str.split() / str.strip() that occur in the model.
Whitespace == {" ", "\t", "\n"}

IsSpace(c) == c \in Whitespace

UpperChars == <<"A", "B", "C", "D", "E", "F", "G", "H", "I", "J", "K", "L", "M", "N", "O", "P", "Q", "R", "S", "T", "U", "V", "W", "X", "Y", "Z", "Á", "É", "Í", "Ó", "Ú", "Ñ">>

LowerChars == <<"a", "b", "c", "d", "e", "f", "g", "h", "i", "j", "k", "l", "m", "n", "o", "p", "q", "r", "s", "t", "u", "v", "w", "x", "y", "z", "á", "é", "í", "ó", "ú", "ñ">>

\* str.lower() on one character.
LowerChar(c) ==
    IF \E i \in 1..Len(UpperChars) : UpperChars[i] = c
    THEN LowerChars[CHOOSE i \in 1..Len(UpperChars) : UpperChars[i] = c]
    ELSE c

\* str.lower()
Lower(s) == [i \in 1..Len(s) |-> LowerChar(s[i])]

RECURSIVE LStrip(_)
LStrip(s) ==
    IF s = <<>> THEN <<>>
    ELSE IF IsSpace(Head(s)) THEN LStrip(Tail(s)) ELSE s

RECURSIVE RStrip(_)
RStrip(s) ==
    IF s = <<>> THEN <<>>
    ELSE IF IsSpace(s[Len(s)]) THEN RStrip(SubSeq(s, 1, Len(s) - 1)) ELSE s

\* str.strip()
Strip(s) == RStrip(LStrip(s))

RECURSIVE SplitFrom(_, _, _)
SplitFrom(s, cur, acc) ==
    IF s = <<>>
    THEN (IF cur = <<>> THEN acc ELSE Append(acc, cur))
    ELSE IF IsSpace(Head(s))
         THEN SplitFrom(Tail(s), <<>>, IF cur = <<>> THEN acc ELSE Append(acc, cur))
         ELSE SplitFrom(Tail(s), Append(cur, Head(s)), acc)

\* str.split() without arguments: the maximal runs of non-whitespace.
Split(s) == SplitFrom(s, <<>>, <<>>)

RECURSIVE Join(_, _)
\* sep.join(parts)
Join(parts, sep) ==
    IF parts = <<>> THEN <<>>
    ELSE IF Len(parts) = 1 THEN parts[1]
    ELSE parts[1] \o sep \o Join(Tail(parts), sep)

\* word in q
Contains(word, q) ==
    \E i \in 0..Len(q) :
        /\ i + Len(word) <= Len(q)
        /\ SubSeq(q, i + 1, i + Len(word)) = word

\* bool(s) of a Python str
Truthy(s) == s # ""

\* ------------------------------------------------------- heuristic tables
prod_map == <<
    [word |-> <<"c", "i", "s", "c", "o">>,    expr |-> <<"p", "r", "o", "d", "u", "c", "t", ":", "c", "i", "s", "c", "o">>],
    [word |-> <<"a", "p", "a", "c", "h", "e">>,   expr |-> <<"p", "r", "o", "d", "u", "c", "t", ":", "a", "p", "a", "c", "h", "e">>],
    [word |-> <<"n", "g", "i", "n", "x">>,    expr |-> <<"p", "r", "o", "d", "u", "c", "t", ":", "n", "g", "i", "n", "x">>],
    [word |-> <<"m", "i", "k", "r", "o", "t", "i", "k">>, expr |-> <<"p", "r", "o", "d", "u", "c", "t", ":", "m", "i", "k", "r", "o", "t", "i", "k">>],
    [word |-> <<"r", "d", "p">>,      expr |-> <<"p", "o", "r", "t", ":", "3", "3", "8", "9">>],
    [word |-> <<"s", "s", "h">>,      expr |-> <<"p", "o", "r", "t", ":", "2", "2">>],
    [word |-> <<"f", "t", "p">>,      expr |-> <<"p", "o", "r", "t", ":", "2", "1">>] >>

country_map == <<
    [name |-> <<"c", "h", "i", "l", "e">>,     code |-> <<"C", "L">>],
    [name |-> <<"a", "r", "g", "e", "n", "t", "i", "n", "a">>, code |-> <<"A", "R">>],
    [name |-> <<"m", "e", "x", "i", "c", "o">>,    code |-> <<"M", "X">>],
    [name |-> <<"m", "é", "x", "i", "c", "o">>,    code |-> <<"M", "X">>],
    [name |-> <<"e", "s", "p", "a", "ñ", "a">>,    code |-> <<"E", "S">>],
    [name |-> <<"p", "e", "r", "u">>,      code |-> <<"P", "E">>],
    [name |-> <<"p", "e", "r", "ú">>,      code |-> <<"P", "E">>],
    [name |-> <<"c", "o", "l", "o", "m", "b", "i", "a">>,  code |-> <<"C", "O">>],
    [name |-> <<"b", "r", "a", "s", "i", "l">>,    code |-> <<"B", "R">>],
    [name |-> <<"u", "r", "u", "g", "u", "a", "y">>,   code |-> <<"U", "Y">>] >>

HeuristicTag == "Traducción heurística sin IA."

ModelTag == "Traducción usando OpenAI (gpt-4o-mini)."

RECURSIVE ProdLoop_FirstOnly(_, _, _)
\* Mutant of ProdLoop: the loop stops at the first trigger that matches.
ProdLoop_FirstOnly(q, i, parts) ==
    IF i > Len(prod_map) THEN parts
    ELSE IF Contains(prod_map[i].word, q)
         THEN Append(parts, prod_map[i].expr)
         ELSE ProdLoop_FirstOnly(q, i + 1, parts)

RECURSIVE ProdLoop(_, _, _)
\* for word, expr in prod_map.items(): if word in q: parts.append(expr)
ProdLoop(q, i, parts) ==
    IF i > Len(prod_map) THEN parts
    ELSE ProdLoop(q, i + 1,
                  IF Contains(prod_map[i].word, q)
                  THEN Append(parts, prod_map[i].expr) ELSE parts)

\* Number of positions of q at which word occurs.
Occurrences(word, q) ==
    Cardinality({ i \in 0..Len(q) :
                    /\ i + Len(word) <= Len(q)
                    /\ SubSeq(q, i + 1, i + Len(word)) = word })

RECURSIVE Repeat(_, _)
Repeat(x, n) == IF n = 0 THEN <<>> ELSE << x >> \o Repeat(x, n - 1)

RECURSIVE CountryLoop_PerOccurrence(_, _, _)
\* Mutant of CountryLoop: one fragment per occurrence of the country name.
CountryLoop_PerOccurrence(q, i, parts) ==
    IF i > Len(country_map) THEN parts
    ELSE CountryLoop_PerOccurrence(q, i + 1,
             parts \o Repeat(<<"c", "o", "u", "n", "t", "r", "y", ":">> \o country_map[i].code,
                             Occurrences(country_map[i].name, q)))

RECURSIVE CountryLoop(_, _, _)
\* for name, code in country_map.items(): if name in q: parts.append(f"country:{code}")
CountryLoop(q, i, parts) ==
    IF i > Len(country_map) THEN parts
    ELSE CountryLoop(q, i + 1,
                     IF Contains(country_map[i].name, q)
                     THEN Append(parts, <<"c", "o", "u", "n", "t", "r", "y", ":">> \o country_map[i].code)
                     ELSE parts)

\* Mutant of TranslateQueryHeuristic: without triggers the lowercased
\* question is used as it is, its whitespace not collapsed.
TranslateQueryHeuristic_NoCollapse(qn) ==
    LET q     == Lower(qn)
        parts == CountryLoop(q, 1, ProdLoop(q, 1, <<>>))
        query == IF parts = <<>> THEN q ELSE Join(parts, <<" ">>)
    IN  [query       |-> IF Strip(query) # <<>> THEN Strip(query) ELSE q,
         explanation |-> HeuristicTag]

\* translate_query_heuristic(question)
TranslateQueryHeuristic(qn) ==
    LET q     == Lower(qn)
        parts == CountryLoop(q, 1, ProdLoop(q, 1, <<>>))
        query == IF parts = <<>> THEN Join(Split(q), <<" ">>) ELSE Join(parts, <<" ">>)
    IN  [query       |-> IF Strip(query) # <<>> THEN Strip(query) ELSE q,
         explanation |-> HeuristicTag]

\* ------------------------------------------------------------- the inputs
\* Fragments of questions: whitespace, a filler word, triggers in lower and
\* upper case, and the two spellings of one country.
Pieces == { <<" ">>, <<"\t", " ">>, <<"I", "p">>, <<"r", "d", "p">>, <<"S", "S", "H">>, <<"c", "h", "i", "l", "e">>, <<"m", "e", "x", "i", "c", "o">>, <<"M", "é", "x", "i", "c", "o">> }

RECURSIVE Flatten(_)
Flatten(ps) == IF ps = <<>> THEN <<>> ELSE Head(ps) \o Flatten(Tail(ps))

\* The examples of the help text and of the module docstring.
Scenarios == { <<"s", "e", "r", "v", "i", "d", "o", "r", "e", "s", " ", "a", "p", "a", "c", "h", "e", " ", "e", "n", " ", "e", "s", "p", "a", "ñ", "a">>, <<"c", "á", "m", "a", "r", "a", "s", " ", "i", "p", " ", "e", "n", " ", "c", "h", "i", "l", "e">> }

Questions ==
    { Flatten(ps) : ps \in UNION { [1..n -> Pieces] : n \in 0..MaxPieces } }
        \cup Scenarios

\* The api_key / openai_key argument: "" means no credential.
Credentials == { "", "sk-test" }

EntryPoints == { "translate_query", "translate_query_openai", "translate_query_heuristic" }

\* What input() does at the prompt of install_dependency: it raises EOFError
\* when stdin is closed or exhausted, and returns the typed line otherwise.
StdinOutcomes ==
    { [eof |-> TRUE,  line |-> <<>>],
      [eof |-> FALSE, line |-> <<"s">>],
      [eof |-> FALSE, line |-> <<" ", "S", "I", " ">>],
      [eof |-> FALSE, line |-> <<"n">>],
      [eof |-> FALSE, line |-> <<>>] }

YesAnswers == { <<"s">>, <<"s", "i">>, <<"s", "í">>, <<"y">>, <<"y", "e", "s">> }

\* What OpenAI(api_key=...) and client.chat.completions.create(...) do: the
\* constructor raises, the request raises, the response carries no content
\* (None, or no choices), or it carries a content string.
ServiceOutcomes ==
    { [kind |-> "construct_error", content |-> <<>>],
      [kind |-> "request_error",   content |-> <<>>],
      [kind |-> "no_content",      content |-> <<>>],
      [kind |-> "content",         content |-> <<>>],
      [kind |-> "content",         content |-> <<" ", "\n">>],
      [kind |-> "content",         content |-> <<" ", "p", "o", "r", "t", ":", "2", "2", " ", "c", "o", "u", "n", "t", "r", "y", ":", "C", "L", "\n">>],
      [kind |-> "content",         content |-> <<"c", "o", "u", "n", "t", "r", "y", ":", "C", "L">>] }

\* --------------------------------------------------------------- the state
VARIABLES
    question,         \* the question argument
    api_key,          \* the credential argument
    entry,            \* the function the caller invoked
    pc,               \* position of the invocation
    result,           \* the returned dict, meaningful once pc = "done"
    raised,           \* the exception that reached the caller, "" if none
    trace,            \* functions entered, and how the invocation ended
    response,         \* the outcome of the service call, once made
    importTried,      \* an import of the openai package was attempted
    clientBuilt,      \* OpenAI(api_key=...) was called
    requests,         \* requests sent to the model service
    openaiInstalled,  \* the openai package is importable in this environment
    pipRuns,          \* pip install subprocesses started
    prompts,          \* input() prompts shown on the terminal
    printed           \* messages written to stdout

vars == << question, api_key, entry, pc, result, raised, trace, response,
           importTried, clientBuilt, requests, openaiInstalled, pipRuns,
           prompts, printed >>

NoResult == [query |-> <<>>, explanation |-> ""]

NoResponse == [kind |-> "none", content |-> <<>>]

Init ==
    /\ question \in Questions
    /\ api_key \in Credentials
    /\ entry \in EntryPoints
    /\ openaiInstalled \in BOOLEAN
    /\ pc = entry
    /\ result = NoResult
    /\ raised = ""
    /\ trace = <<>>
    /\ response = NoResponse
    /\ importTried = FALSE
    /\ clientBuilt = FALSE
    /\ requests = 0
    /\ pipRuns = 0
    /\ prompts = 0
    /\ printed = <<>>

\* ------------------------------------------------------------- the actions
\* Mutant of TranslateQuery: the dispatcher always takes the model path.
TranslateQuery_AlwaysModel ==
    /\ pc = "translate_query"
    /\ trace' = Append(trace, "translate_query")
    /\ pc' = "translate_query_openai"
    /\ UNCHANGED << question, api_key, entry, result, raised, response,
                    importTried, clientBuilt, requests, openaiInstalled,
                    pipRuns, prompts, printed >>

\* translate_query: dispatch on the credential.
TranslateQuery ==
    /\ pc = "translate_query"
    /\ trace' = Append(trace, "translate_query")
    /\ pc' = IF Truthy(api_key) THEN "translate_query_openai"
                                ELSE "translate_query_heuristic"
    /\ UNCHANGED << question, api_key, entry, result, raised, response,
                    importTried, clientBuilt, requests, openaiInstalled,
                    pipRuns, prompts, printed >>

\* translate_query_openai, entry: `if not api_key: return heuristic`.
TranslateQueryOpenai ==
    /\ pc = "translate_query_openai"
    /\ trace' = Append(trace, "translate_query_openai")
    /\ pc' = IF ~Truthy(api_key) THEN "translate_query_heuristic"
                                 ELSE "ensure_openai_installed"
    /\ UNCHANGED << question, api_key, entry, result, raised, response,
                    importTried, clientBuilt, requests, openaiInstalled,
                    pipRuns, prompts, printed >>

\* ensure_openai_installed: try `import openai`, install on ImportError.
EnsureOpenaiInstalled ==
    /\ pc = "ensure_openai_installed"
    /\ importTried' = TRUE
    /\ pc' = IF openaiInstalled THEN "import_OpenAI" ELSE "install_dependency"
    /\ UNCHANGED << question, api_key, entry, result, raised, trace, response,
                    clientBuilt, requests, openaiInstalled, pipRuns, prompts,
                    printed >>

\* install_dependency("openai"): prompt, then pip install; its False result
\* makes translate_query_openai return the heuristic translation.
InstallDependency ==
    /\ pc = "install_dependency"
    /\ prompts' = prompts + 1
    /\ \E in \in StdinOutcomes :
        \/ /\ in.eof
           /\ raised' = "EOFError"
           /\ pc' = "raised"
           /\ trace' = Append(trace, "raise")
           /\ printed' = Append(printed, "falta")
           /\ UNCHANGED << openaiInstalled, pipRuns >>
        \/ /\ ~in.eof
           /\ Lower(Strip(in.line)) \notin YesAnswers
           /\ pc' = "translate_query_heuristic"
           /\ printed' = printed \o << "falta", "no_se_instalo" >>
           /\ UNCHANGED << raised, trace, openaiInstalled, pipRuns >>
        \/ /\ ~in.eof
           /\ Lower(Strip(in.line)) \in YesAnswers
           /\ pipRuns' = pipRuns + 1
           /\ \E pipOk \in BOOLEAN :
                IF pipOk
                THEN /\ openaiInstalled' = TRUE
                     /\ pc' = "import_OpenAI"
                     /\ printed' = printed \o << "falta", "instalada" >>
                ELSE /\ openaiInstalled' = openaiInstalled
                     /\ pc' = "translate_query_heuristic"
                     /\ printed' = printed \o << "falta", "no_se_pudo_instalar" >>
           /\ UNCHANGED << raised, trace >>
    /\ UNCHANGED << question, api_key, entry, result, response, importTried,
                    clientBuilt, requests >>

\* `from openai import OpenAI`: an installed package without that name
\* (a release before 1.0) raises ImportError, which is caught.
ImportOpenAI ==
    /\ pc = "import_OpenAI"
    /\ \E ok \in BOOLEAN :
        pc' = IF ok THEN "call_service" ELSE "translate_query_heuristic"
    /\ UNCHANGED << question, api_key, entry, result, raised, trace, response,
                    importTried, clientBuilt, requests, openaiInstalled,
                    pipRuns, prompts, printed >>

\* Mutant of ModelReturn: the `if not query` test is missing.
ModelReturn_NoEmptyCheck(out) ==
    IF out.kind = "content"
    THEN [pc |-> "done",
          result |-> [query |-> Strip(out.content), explanation |-> ModelTag]]
    ELSE [pc |-> "translate_query_heuristic", result |-> NoResult]

\* Mutant of ModelReturn: emptiness is tested before strip(), not after.
ModelReturn_CheckBeforeStrip(out) ==
    IF out.kind = "content" /\ out.content # <<>>
    THEN [pc |-> "done",
          result |-> [query |-> Strip(out.content), explanation |-> ModelTag]]
    ELSE [pc |-> "translate_query_heuristic", result |-> NoResult]

\* Mutant of ModelReturn: the content is returned without strip().
ModelReturn_Unstripped(out) ==
    IF out.kind = "content" /\ Strip(out.content) # <<>>
    THEN [pc |-> "done",
          result |-> [query |-> out.content, explanation |-> ModelTag]]
    ELSE [pc |-> "translate_query_heuristic", result |-> NoResult]

\* What translate_query_openai does with the service's outcome: the position
\* it continues at and the dict it returns when it returns one itself.
ModelReturn(out) ==
    IF out.kind = "content" /\ Strip(out.content) # <<>>
    THEN [pc |-> "done",
          result |-> [query |-> Strip(out.content), explanation |-> ModelTag]]
    ELSE [pc |-> "translate_query_heuristic", result |-> NoResult]

\* Mutant of RequestsSent: a failed request is sent a second time.
RequestsSent_Retry(out) ==
    IF out.kind = "construct_error" THEN 0
    ELSE IF out.kind = "request_error" THEN 2 ELSE 1

\* Requests that one execution of the try block sends for an outcome.
RequestsSent(out) == IF out.kind = "construct_error" THEN 0 ELSE 1

\* The try block of translate_query_openai: build the client, send the one
\* request, strip the answer; `except Exception` prints and falls back.
CallService ==
    /\ pc = "call_service"
    /\ \E out \in ServiceOutcomes :
        /\ response' = out
        /\ clientBuilt' = TRUE
        /\ requests' = requests + RequestsSent(out)
        /\ pc' = ModelReturn(out).pc
        /\ result' = ModelReturn(out).result
        /\ trace' = IF ModelReturn(out).pc = "done"
                    THEN Append(trace, "return") ELSE trace
        /\ printed' = IF out.kind \in {"construct_error", "request_error", "no_content"}
                      THEN Append(printed, "openai_fallo") ELSE printed
    /\ UNCHANGED << question, api_key, entry, raised, importTried,
                    openaiInstalled, pipRuns, prompts >>

\* translate_query_heuristic runs and its dict is returned to the caller.
HeuristicCall ==
    /\ pc = "translate_query_heuristic"
    /\ result' = TranslateQueryHeuristic(question)
    /\ trace' = trace \o << "translate_query_heuristic", "return" >>
    /\ pc' = "done"
    /\ UNCHANGED << question, api_key, entry, raised, response, importTried,
                    clientBuilt, requests, openaiInstalled, pipRuns, prompts,
                    printed >>

Next ==
    \/ TranslateQuery
    \/ TranslateQueryOpenai
    \/ EnsureOpenaiInstalled
    \/ InstallDependency
    \/ ImportOpenAI
    \/ CallService
    \/ HeuristicCall

Spec == Init /\ [][Next]_vars

\* ---------------------------------------------- vocabulary of the claims
Returned == pc = "done"

Ended == pc \in {"done", "raised"}

\* s has a character that is not whitespace.
NonBlank(s) == \E i \in 1..Len(s) : s[i] \notin Whitespace

RECURSIVE Squeeze(_)
\* Every run of whitespace becomes one space; a run at the end disappears.
Squeeze(s) ==
    IF s = <<>> THEN <<>>
    ELSE IF Head(s) \in Whitespace
         THEN IF Tail(s) = <<>> \/ Head(Tail(s)) \in Whitespace
              THEN Squeeze(Tail(s))
              ELSE << " " >> \o Squeeze(Tail(s))
         ELSE << Head(s) >> \o Squeeze(Tail(s))

\* The lowercased question, whitespace runs collapsed, both ends trimmed.
NormalizedLower(s) ==
    LET t == Squeeze(Lower(s))
    IN  IF t # <<>> /\ t[1] = " " THEN Tail(t) ELSE t

\* The rules of both tables, product/port rules first, each in table order.
AllRules ==
    [i \in 1..Len(prod_map) |->
        [trigger |-> prod_map[i].word, fragment |-> prod_map[i].expr]]
    \o
    [i \in 1..Len(country_map) |->
        [trigger  |-> country_map[i].name,
         fragment |-> <<"c", "o", "u", "n", "t", "r", "y", ":">> \o country_map[i].code]]

\* The rules whose trigger is a substring of the lowercased question.
Matched(qn) ==
    LET q == Lower(qn)
    IN  { i \in 1..Len(AllRules) : Contains(AllRules[i].trigger, q) }

RECURSIVE FragmentsOf(_, _)
\* The fragments of the rules of the set R from rule i on, in table order.
FragmentsOf(R, i) ==
    IF i > Len(AllRules) THEN <<>>
    ELSE (IF i \in R THEN << AllRules[i].fragment >> ELSE <<>>)
            \o FragmentsOf(R, i + 1)

\* How many elements of the sequence seq equal x.
Count(x, seq) == Cardinality({ i \in 1..Len(seq) : seq[i] = x })

HeuristicResult == Returned /\ result.explanation = HeuristicTag

ModelResult == Returned /\ result.explanation = ModelTag

\* The service call failed or answered with nothing but whitespace.
ServiceFailed ==
    \/ response.kind \in {"construct_error", "request_error", "no_content"}
    \/ response.kind = "content" /\ ~NonBlank(response.content)

\* ---------------------------------------------------------------- claims

\* C1: translate_with_model and translate never fail outward: whatever
\* internal fault occurs, the call returns a TranslationResult and no error
\* reaches the caller.  (Violated: input() in install_dependency raises
\* EOFError outside any try block.)
C1_NeverFailsOutward == raised = "" /\ pc # "raised"

\* C2: with a non-empty credential, when the service call raises or answers
\* with an empty or whitespace-only string, the result is exactly the
\* heuristic result for the same question.
C2_FailureEqualsHeuristic ==
    (Returned /\ Truthy(api_key) /\ ServiceFailed)
        => result = TranslateQueryHeuristic(question)

C2_Witness ==
    /\ Returned
    /\ entry = "translate_query_openai"
    /\ response.kind = "content"
    /\ response.content = <<" ", "\n">>
    /\ question = <<"S", "S", "H">>
    /\ result = [query |-> <<"p", "o", "r", "t", ":", "2", "2">>, explanation |-> HeuristicTag]

\* C3 as stated: the returned query is non-empty after whitespace
\* normalization for every question, the empty and the whitespace-only
\* question included.
C3_QueryNeverEmpty == Returned => NonBlank(result.query)

\* C3 amended: for every question that has a non-whitespace character, the
\* returned query is non-empty after whitespace normalization.
C3_NonBlankQuestionNonEmptyQuery ==
    (Returned /\ NonBlank(question)) => NonBlank(result.query)

C3_Witness ==
    /\ Returned
    /\ question = <<" ", "I", "p">>
    /\ result.query = <<"i", "p">>

\* C4 as stated: without trigger and without credential, translate returns
\* the lowercased question with whitespace runs collapsed and ends trimmed.
C4_NoTriggerNormalized ==
    (Returned /\ entry = "translate_query" /\ ~Truthy(api_key)
        /\ Matched(question) = {})
        => result.query = NormalizedLower(question)

\* C4 amended: without trigger and without credential, translate returns the
\* normalized lowercased question when that is non-empty, and the lowercased
\* question itself, whitespace kept, when the question is empty or blank.
C4_NoTriggerNormalizedOrRaw ==
    (Returned /\ entry = "translate_query" /\ ~Truthy(api_key)
        /\ Matched(question) = {})
        => LET n == NormalizedLower(question)
           IN  result.query = IF n # <<>> THEN n ELSE Lower(question)

C4_Witness ==
    /\ Returned
    /\ entry = "translate_query"
    /\ ~Truthy(api_key)
    /\ question = <<"I", "p", "\t", " ", "I", "p">>
    /\ result.query = <<"i", "p", " ", "i", "p">>

\* C5: with an empty credential the dispatcher makes no request, never loads
\* or constructs the client (translate_query_openai is not even entered),
\* and returns what translate_heuristic returns for the question.
C5_EmptyCredentialNoModel ==
    (entry = "translate_query" /\ ~Truthy(api_key))
        => /\ requests = 0
           /\ ~importTried
           /\ ~clientBuilt
           /\ prompts = 0
           /\ pipRuns = 0
           /\ Count("translate_query_openai", trace) = 0
           /\ Returned => result = TranslateQueryHeuristic(question)

C5_Witness ==
    /\ Returned
    /\ entry = "translate_query"
    /\ ~Truthy(api_key)
    /\ question = <<"r", "d", "p">>
    /\ trace = << "translate_query", "translate_query_heuristic", "return" >>
    /\ result.query = <<"p", "o", "r", "t", ":", "3", "3", "8", "9">>

\* C6: when a trigger occurs, the heuristic query is the space-joined
\* fragments of all matching rules, product/port rules first, in table
\* order; it is a function of the set of matching rules alone.
C6_AllFragmentsInTableOrder ==
    HeuristicResult =>
        LET M == Matched(question)
            q == Lower(question)
        IN  /\ (M # {}) => result.query = Join(FragmentsOf(M, 1), <<" ">>)
            /\ (question = <<"s", "e", "r", "v", "i", "d", "o", "r", "e", "s", " ", "a", "p", "a", "c", "h", "e", " ", "e", "n", " ", "e", "s", "p", "a", "ñ", "a">>)
                  => result.query = <<"p", "r", "o", "d", "u", "c", "t", ":", "a", "p", "a", "c", "h", "e", " ", "c", "o", "u", "n", "t", "r", "y", ":", "E", "S">>
            /\ (Contains(<<"c", "h", "i", "l", "e">>, q) /\ Contains(<<"r", "d", "p">>, q))
                  => /\ Count(<<"p", "o", "r", "t", ":", "3", "3", "8", "9">>, Split(result.query)) > 0
                     /\ Count(<<"c", "o", "u", "n", "t", "r", "y", ":", "C", "L">>, Split(result.query)) > 0

C6_Witness ==
    /\ HeuristicResult
    /\ question = <<"c", "h", "i", "l", "e", " ", "r", "d", "p">>
    /\ result.query = <<"p", "o", "r", "t", ":", "3", "3", "8", "9", " ", "c", "o", "u", "n", "t", "r", "y", ":", "C", "L">>

\* C7 as stated: each fragment occurs at most once in the heuristic query,
\* also when distinct spellings that map to it occur in the question.
C7_FragmentAtMostOnce ==
    HeuristicResult =>
        LET tokens == Split(result.query)
        IN  \A i \in 1..Len(AllRules) : Count(AllRules[i].fragment, tokens) <= 1

\* C7 amended: each rule emits its fragment once however often its trigger
\* occurs, so a fragment occurs as many times as there are distinct
\* matching triggers that map to it (twice for mexico with méxico).
C7_OncePerMatchingRule ==
    HeuristicResult =>
        LET M      == Matched(question)
            tokens == Split(result.query)
        IN  (M # {}) =>
                \A i \in 1..Len(AllRules) :
                    Count(AllRules[i].fragment, tokens)
                        = Cardinality({ j \in M : AllRules[j].fragment
                                                    = AllRules[i].fragment })

C7_Witness ==
    /\ HeuristicResult
    /\ question = <<"c", "h", "i", "l", "e", " ", "c", "h", "i", "l", "e">>
    /\ result.query = <<"c", "o", "u", "n", "t", "r", "y", ":", "C", "L">>

\* C8 as stated: apart from at most one request to the model service, an
\* invocation starts no external action and changes no process-wide or
\* persistent state.
C8_NoOtherEffects == requests <= 1 /\ pipRuns = 0

\* C8 amended: apart from at most one request and console messages, the only
\* outside effects are, when a credential is given and the openai package
\* cannot be imported, one install prompt and, if the user agrees, one pip
\* install that may make the package importable; the arguments are never
\* changed.
C8_EffectsFrame ==
    [][ /\ api_key' = api_key
        /\ question' = question
        /\ requests' <= 1 /\ pipRuns' <= 1 /\ prompts' <= 1
        /\ (requests' # requests)
              => (pc = "call_service" /\ Truthy(api_key))
        /\ (prompts' # prompts \/ pipRuns' # pipRuns
                \/ openaiInstalled' # openaiInstalled)
              => (pc = "install_dependency" /\ ~openaiInstalled
                    /\ Truthy(api_key) /\ prompts' = prompts + 1)
        /\ (openaiInstalled' # openaiInstalled)
              => (openaiInstalled' /\ pipRuns' = pipRuns + 1) ]_vars

C8_Witness ==
    /\ Returned
    /\ pipRuns = 1
    /\ prompts = 1
    /\ openaiInstalled
    /\ requests = 1
    /\ response.kind = "request_error"

\* C9: the explanation is the model tag exactly when the query is the
\* stripped, non-empty content the service answered; otherwise the result is
\* the heuristic query under the heuristic tag.
C9_ExplanationNamesPath ==
    Returned =>
        /\ result.explanation \in {ModelTag, HeuristicTag}
        /\ (result.explanation = ModelTag)
              <=> (/\ response.kind = "content"
                   /\ NonBlank(response.content)
                   /\ result.query = Strip(response.content))
        /\ (result.explanation # ModelTag)
              => result = TranslateQueryHeuristic(question)

C9_Witness ==
    /\ ModelResult
    /\ question = <<"c", "h", "i", "l", "e">>
    /\ result.query = <<"c", "o", "u", "n", "t", "r", "y", ":", "C", "L">>
    /\ TranslateQueryHeuristic(question).query = result.query

\* C10: an invocation of translate ends having followed INIT -> MODEL_ATTEMPT
\* -> SUCCESS -> DONE, INIT -> MODEL_ATTEMPT -> FALLBACK -> DONE or INIT ->
\* HEURISTIC -> DONE, chosen by the credential, with at most one request and
\* at most one run of the heuristic translator.  (Violated: the EOFError of
\* C1 ends the invocation in MODEL_ATTEMPT.)
C10_PathShape ==
    entry = "translate_query" =>
        /\ requests <= 1
        /\ Count("translate_query_heuristic", trace) <= 1
        /\ Ended =>
            IF Truthy(api_key)
            THEN \/ /\ trace = << "translate_query", "translate_query_openai",
                                  "return" >>
                    /\ ModelResult
                 \/ /\ trace = << "translate_query", "translate_query_openai",
                                  "translate_query_heuristic", "return" >>
                    /\ HeuristicResult
            ELSE /\ trace = << "translate_query", "translate_query_heuristic",
                               "return" >>
                 /\ HeuristicResult

====
